---------------------------- MODULE Spec2Model ----------------------------
(***************************************************************************)
(* Model of github.com/ncruces/sort: package quick (Quicksort, Quickselect *)
(* and the partial sorts built on them) and package heap (Floyd's          *)
(* bottom-up Heapsort).                                                    *)
(*                                                                         *)
(* A Go slice is a window [lo, hi) on a backing array; the backing array   *)
(* is the variable mem, whose length is the capacity of the caller's       *)
(* slice.  Every slice the code derives (s[:p], s[p:], s[i:i+5]) shares    *)
(* that array and, being a two-index slice, keeps its end of capacity.     *)
(* Addresses are 0-based as in Go: address a is mem[a+1].                  *)
(* Elements are integers, compared with < (cmp.Less on integers).          *)
(*                                                                         *)
(* The program is a stack machine: one frame per active call, one action   *)
(* per statement group of a function.  The loops that contain no call      *)
(* (one Hoare scan, insertion, selection, the grouping loop of             *)
(* medianOfMedians, siftDown) are operators computed as the code computes  *)
(* them.  A run-time panic stops the machine with status "panic" and the   *)
(* panicking frame on top of the stack.                                    *)
(***************************************************************************)
EXTENDS Integers, Sequences, FiniteSets, TLC

-----------------------------------------------------------------------------
(* Bounds of the model. *)

\* longest sequence of the exhaustive family
MaxLen == 5
\* elements of the exhaustive family are 0..MaxVal
MaxVal == 2
\* the caller's slice has capacity len or len+MaxExtraCap
MaxExtraCap == 1
\* length of the long patterned inputs that can trip the pivot-quality guard
LongLen == 81
\* the retries of one partition call are counted up to MaxRetry
MaxRetry == 2
\* length of the patterned inputs just above the Quicksort threshold
MidLen == 33
\* length of the shortest patterned inputs, the shortest on which
\* medianOfMedians has two groups of five
GroupsLen == 11

(* Program constants (literals of src/quick/sort.go). *)

\* Sort: for len(s) > 32
minLen == 32
\* SortFirst: for k > 4; Select: for k >= 4
minK == 4
\* badPartition: b := r / 16
minRatio == 16
\* badPartition: b > 4
minBand == 4
\* medianOfMedians: groups of 5
groupLen == 5

-----------------------------------------------------------------------------
(* Slices on the backing array. *)

At(m, a) == m[a + 1]

Put(m, a, v) == [m EXCEPT ![a + 1] = v]

Swap(m, a, b) == [m EXCEPT ![a + 1] = m[b + 1], ![b + 1] = m[a + 1]]

\* s[a:b] as a sequence of values, for 0 <= a <= b <= cap
Slice(m, a, b) == SubSeq(m, a + 1, b)

\* a / b in Go for b > 0: the quotient is truncated toward zero
GoDiv(a, b) == IF a >= 0 THEN a \div b ELSE -((-a) \div b)

\* True of every array.  An operator's argument is evaluated when it is
\* first read: a loop reads Now(m) first, so that each of its iterations is
\* evaluated before the next one begins, as the statements of the code are.
Now(m) == Len(m) >= 0

-----------------------------------------------------------------------------
(* package quick: the loops that contain no call, as operators.             *)
(* m is the backing array, lo the address of s[0], n = len(s).              *)

\* (mutant) the scan from the left that also passes the elements equal to p
scanUpPassesEqual(m, lo, r, p, i) ==
    IF i >= r THEN i
    ELSE CHOOSE x \in i..r :
            /\ x = r \/ ~(At(m, lo + x) <= p)
            /\ \A y \in i..(x - 1) : At(m, lo + y) <= p

\* partition: for i < r && cmp.Less(s[i], p) { i++ }
\* The loop leaves i at the first index from i on that is r or holds an
\* element not less than p.
scanUp(m, lo, r, p, i) ==
    IF i >= r THEN i
    ELSE CHOOSE x \in i..r :
            /\ x = r \/ ~(At(m, lo + x) < p)
            /\ \A y \in i..(x - 1) : At(m, lo + y) < p

\* partition: for j > 0 && cmp.Less(p, s[j]) { j-- }
\* The loop leaves j at the first index from j down that is 0 or holds an
\* element not greater than p.
scanDown(m, lo, p, j) ==
    IF j <= 0 THEN j
    ELSE CHOOSE x \in 0..j :
            /\ x = 0 \/ ~(p < At(m, lo + x))
            /\ \A y \in (x + 1)..j : p < At(m, lo + y)

\* partition: the for loop entered at retry with i = 0, j = r, up to the
\* crossing of the scan pointers; the array then and the index i.
RECURSIVE hoareLoop(_, _, _, _, _, _)
hoareLoop(m, lo, r, p, i, j) ==
    LET i2 == scanUp(m, lo, r, p, i)
        j2 == scanDown(m, lo, p, j)
    IN  IF i2 > j2
        THEN [mem |-> m, i |-> i2]
        ELSE hoareLoop(Swap(m, lo + i2, lo + j2), lo, r, p, i2 + 1, j2 - 1)

hoareScan(m, lo, hi, p) == hoareLoop(m, lo, hi - lo - 1, p, 0, hi - lo - 1)

\* (mutant) badPartition without the floor b > 4 of the band
badPartitionNoFloor(i, r) ==
    LET b == GoDiv(r, minRatio)
    IN  ~(b < i /\ i < r - b)

badPartition(i, r) ==
    LET b == GoDiv(r, minRatio)
    IN  b > minBand /\ ~(b < i /\ i < r - b)

\* (mutant) insertion whose inner loop stops at i > 1: s[0] is never compared
RECURSIVE insertOneSkipsFirst(_, _, _, _)
insertOneSkipsFirst(m, lo, p, i) ==
    IF i > 1 /\ p < At(m, lo + i - 1)
    THEN insertOneSkipsFirst(Put(m, lo + i, At(m, lo + i - 1)), lo, p, i - 1)
    ELSE Put(m, lo + i, p)

\* insertion: the inner loop for one element p taken from position i
RECURSIVE insertOne(_, _, _, _)
insertOne(m, lo, p, i) ==
    IF i > 0 /\ p < At(m, lo + i - 1)
    THEN insertOne(Put(m, lo + i, At(m, lo + i - 1)), lo, p, i - 1)
    ELSE Put(m, lo + i, p)

RECURSIVE insertionFrom(_, _, _, _)
insertionFrom(m, lo, n, i) ==
    IF Now(m) /\ i >= n THEN m
    ELSE insertionFrom(insertOne(m, lo, At(m, lo + i), i), lo, n, i + 1)

\* (mutant) insertion with "if" for the inner "for": each element moves
\* down by one position at most
RECURSIVE onePassFrom(_, _, _, _)
onePassFrom(m, lo, n, i) ==
    IF Now(m) /\ i >= n THEN m
    ELSE onePassFrom(IF i > 0 /\ At(m, lo + i) < At(m, lo + i - 1)
                     THEN Swap(m, lo + i, lo + i - 1) ELSE m,
                     lo, n, i + 1)

insertionOnePass(m, lo, hi) == onePassFrom(m, lo, hi - lo, 0)

\* insertion(s) for s = [lo, hi)
insertion(m, lo, hi) == insertionFrom(m, lo, hi - lo, 0)

\* selection: the inner loop over s[i:], from offset j, with the least
\* element p seen so far at index mi: the index of the minimum.  m moves
\* only to a strictly lesser element, so that it ends at the first of the
\* least elements less than p, if there is one.
minIndex(m, lo, n, i, j, mi, p) ==
    LET less == {x \in (i + j)..(n - 1) : At(m, lo + x) < p}
    IN  IF less = {} THEN mi
        ELSE CHOOSE x \in less :
                \A y \in less :
                    \/ At(m, lo + x) < At(m, lo + y)
                    \/ At(m, lo + x) = At(m, lo + y) /\ x <= y

\* selection: the outer loop over s[:k] from i.  The element s[:k][i] can be
\* read up to the capacity, but s[i:] needs i <= len(s) and s[i], s[m] need
\* i < len(s): the iteration i = len(s) panics at the swap, the elements
\* before it already in place.
RECURSIVE selectionFrom(_, _, _, _, _)
selectionFrom(m, lo, n, k, i) ==
    IF Now(m) /\ i >= k THEN [mem |-> m, ok |-> TRUE]
    ELSE IF i >= n THEN [mem |-> m, ok |-> FALSE]
    ELSE selectionFrom(Swap(m, lo + i, lo + minIndex(m, lo, n, i, 0, i, At(m, lo + i))),
                       lo, n, k, i + 1)

\* selection(s, k) for s = [lo, hi): s[:k] needs 0 <= k <= cap(s)
selection(m, lo, hi, k) ==
    IF k < 0 \/ lo + k > Len(m) THEN [mem |-> m, ok |-> FALSE]
    ELSE selectionFrom(m, lo, hi - lo, k, 0)

\* medianOfMedians: the grouping loop from offset i with mc medians moved
\* to the front; the array then and the number of medians
RECURSIVE groupsFromTakesFirst(_, _, _, _, _)
groupsFromTakesFirst(m, lo, n, i, mc) ==
    IF Now(m) /\ i + groupLen < n
    THEN groupsFromTakesFirst(Swap(insertion(m, lo + i, lo + i + groupLen), lo + mc, lo + i),
                              lo, n, i + groupLen, mc + 1)
    ELSE [mem |-> m, m |-> mc]

RECURSIVE groupsFrom(_, _, _, _, _)
groupsFrom(m, lo, n, i, mc) ==
    IF Now(m) /\ i + groupLen < n
    THEN groupsFrom(Swap(insertion(m, lo + i, lo + i + groupLen), lo + mc, lo + i + 2),
                    lo, n, i + groupLen, mc + 1)
    ELSE [mem |-> m, m |-> mc]

\* (mutant) the grouping loop bounded by the capacity: i+5 <= cap(s)
medianGroupsToCap(m, lo, hi) == groupsFrom(m, lo, Len(m) - lo + 1, 0, 0)

medianGroups(m, lo, hi) == groupsFrom(m, lo, hi - lo, 0, 0)

-----------------------------------------------------------------------------
(* The inputs. *)

\* every sequence over 0..MaxVal of length 0..MaxLen
SmallInputs == UNION {[1..n -> 0..MaxVal] : n \in 0..MaxLen}

Abs(x) == IF x < 0 THEN -x ELSE x

\* the generators of the package's tests, and four more shapes: a
\* two-valued and a many-valued scramble, and a valley and a peak, whose
\* middle element is the least, resp. the greatest
Patterns ==
    {"zeros", "bits", "sorted", "reversed", "pipeorgan", "permutation",
     "valley", "peak"}

Pattern(name, n) ==
    [i \in 1..n |->
        LET x == i - 1
        IN  CASE name = "zeros" -> 0
              [] name = "bits" -> ((x * x) \div 3 + x \div 5) % 2
              [] name = "sorted" -> x
              [] name = "reversed" -> n - 1 - x
              [] name = "pipeorgan" -> IF x < n \div 2 THEN x ELSE n - 1 - x
              [] name = "permutation" -> (x * 37 + 11) % n
              [] name = "valley" -> Abs(x - (n - 1) \div 2)
              [] name = "peak" -> n - Abs(x - (n - 1) \div 2)]

LongInputs ==
    {Pattern(name, n) : name \in Patterns, n \in {GroupsLen, MidLen, LongLen}}

\* the counts and indices tried on an input of length n and capacity c:
\* all of them, the invalid ones included, on a short input.  partition
\* and medianOfMedians are not exported: the package and its tests call
\* them on slices that are not empty.
SmallCalls(n, c) ==
    {[op |-> "Sort", k |-> 0]}
    \cup (IF n >= 1 THEN {[op |-> "partition", k |-> 0],
                          [op |-> "medianOfMedians", k |-> 0]}
                    ELSE {})
    \cup {[op |-> "SortFirst", k |-> k] : k \in -1..(c + 1)}
    \cup {[op |-> "SortLast", k |-> k] : k \in -1..(n + 1)}
    \cup {[op |-> "Select", k |-> k] : k \in -1..n}

LongCalls(n) ==
    {[op |-> "Sort", k |-> 0], [op |-> "partition", k |-> 0],
     [op |-> "medianOfMedians", k |-> 0]}
    \cup {[op |-> "SortFirst", k |-> k] : k \in {minK, minK + 1, 11, n \div 2, n}}
    \cup {[op |-> "SortLast", k |-> k] : k \in {1, 11, n \div 2, n}}
    \cup {[op |-> "Select", k |-> k] : k \in {0, minK - 1, minK, 11, n \div 2, n - 1}}

\* what lies in the backing array beyond the length of the slice
Spare(e) == [i \in 1..e |-> 0]

-----------------------------------------------------------------------------
(* The state. *)

VARIABLES
    mem,      \* the backing array of the caller's slice
    len0,     \* the length of the caller's slice; its capacity is Len(mem)
    op,       \* the function the caller calls
    k0,       \* its argument k
    stack,    \* the active calls, the innermost last
    status,   \* "running", "returned" or "panic"
    result,   \* <<v>> once v was returned to the caller, <<>> before or if none is
    orig,     \* the backing array when the caller made its first call
    calls,    \* how many calls the caller has made
    first,    \* the backing array when the first call returned, <<>> before
    steps     \* how many steps the caller's current call has taken

vars == <<mem, len0, op, k0, stack, status, result, orig, calls, first, steps>>

\* a call of fn on the slice [lo, hi) with argument k, at its first statement
Frame(fn, lo, hi, k) ==
    [fn |-> fn,
     pc |-> IF fn \in {"SortFirst", "Select"} THEN "check"
            ELSE IF fn = "Sort" THEN "loop" ELSE "start",
     lo |-> lo, hi |-> hi, k |-> k, p |-> 0]

Top == stack[Len(stack)]

Running(fn, pc) ==
    /\ status = "running"
    /\ Top.fn = fn
    /\ Top.pc = pc

\* the current frame continues as f
Goto(f) ==
    /\ stack' = [stack EXCEPT ![Len(stack)] = f]
    /\ steps' = steps + 1
    /\ UNCHANGED <<status, result>>

\* the current frame calls f and will continue at cont
Call(cont, f) ==
    /\ stack' = Append([stack EXCEPT ![Len(stack)].pc = cont], f)
    /\ steps' = steps + 1
    /\ UNCHANGED <<status, result>>

\* the current call returns v: p := f(...) in the caller, which is the
\* program's caller when the stack empties.  SortLast discards what Select
\* returns.
Return(v) ==
    LET d == Len(stack) - 1
    IN  /\ stack' = IF d = 0 THEN <<>>
                    ELSE IF stack[d].fn = "SortLast" THEN SubSeq(stack, 1, d)
                    ELSE [SubSeq(stack, 1, d) EXCEPT ![d].p = v]
        /\ status' = IF d = 0 THEN "returned" ELSE status
        /\ result' = IF d = 0 THEN <<v>> ELSE result
        /\ steps' = steps + 1

\* the current call returns nothing
ReturnVoid ==
    LET d == Len(stack) - 1
    IN  /\ stack' = SubSeq(stack, 1, d)
        /\ status' = IF d = 0 THEN "returned" ELSE status
        /\ steps' = steps + 1
        /\ UNCHANGED result

\* a run-time panic (index or slice bounds out of range) ends the program
Panic ==
    /\ status' = "panic"
    /\ steps' = steps + 1
    /\ UNCHANGED <<stack, result>>

Caller == <<len0, op, k0, orig, calls, first>>

Init ==
    \E inp \in SmallInputs \cup LongInputs :
      \E e \in IF inp \in SmallInputs THEN {0, MaxExtraCap} ELSE {0} :
        \E c \in IF inp \in SmallInputs THEN SmallCalls(Len(inp), Len(inp) + e)
                                         ELSE LongCalls(Len(inp)) :
            /\ mem = inp \o Spare(e)
            /\ len0 = Len(inp)
            /\ op = c.op
            /\ k0 = c.k
            /\ stack = <<Frame(c.op, 0, Len(inp), c.k)>>
            /\ status = "running"
            /\ result = <<>>
            /\ orig = inp \o Spare(e)
            /\ calls = 1
            /\ first = <<>>
            /\ steps = 0

-----------------------------------------------------------------------------
(* func Sort *)

\* for len(s) > 32 { p := partition(s)
SortPartition ==
    /\ Running("Sort", "loop")
    /\ Top.hi - Top.lo > minLen
    /\ Call("split", Frame("partition", Top.lo, Top.hi, 0))
    /\ UNCHANGED <<mem, Caller>>

\* Sort(s[:p])
SortRecurse ==
    /\ Running("Sort", "split")
    /\ Call("narrow", Frame("Sort", Top.lo, Top.lo + Top.p, 0))
    /\ UNCHANGED <<mem, Caller>>

\* s = s[p:] }
SortNarrow ==
    /\ Running("Sort", "narrow")
    /\ IF Top.p > Top.hi - Top.lo
       THEN Panic
       ELSE Goto([Top EXCEPT !.lo = Top.lo + Top.p, !.pc = "loop"])
    /\ UNCHANGED <<mem, Caller>>

\* insertion(s) once len(s) <= 32
SortInsertion ==
    /\ Running("Sort", "loop")
    /\ Top.hi - Top.lo <= minLen
    /\ mem' = insertion(mem, Top.lo, Top.hi)
    /\ ReturnVoid
    /\ UNCHANGED Caller

(* func SortFirst *)

\* _ = s[:k]: a slice expression is checked against the capacity
SortFirstCheck ==
    /\ Running("SortFirst", "check")
    /\ IF Top.k < 0 \/ Top.lo + Top.k > Len(mem)
       THEN Panic
       ELSE Goto([Top EXCEPT !.pc = "loop"])
    /\ UNCHANGED <<mem, Caller>>

\* (mutant) SortFirst that partitions all the way down: for k > 0
SortFirstPartitionsAll ==
    /\ Running("SortFirst", "loop")
    /\ Top.k > 0
    /\ Call("split", Frame("partition", Top.lo, Top.hi, 0))
    /\ UNCHANGED <<mem, Caller>>

\* for k > 4 { p := partition(s)
SortFirstPartition ==
    /\ Running("SortFirst", "loop")
    /\ Top.k > minK
    /\ Call("split", Frame("partition", Top.lo, Top.hi, 0))
    /\ UNCHANGED <<mem, Caller>>

\* if p > k { s = s[:p] }
SortFirstLeft ==
    /\ Running("SortFirst", "split")
    /\ Top.p > Top.k
    /\ Goto([Top EXCEPT !.hi = Top.lo + Top.p, !.pc = "loop"])
    /\ UNCHANGED <<mem, Caller>>

\* (mutant) SortFirst that leaves the part it splits off as it is
SortFirstSkipsSort ==
    /\ Running("SortFirst", "split")
    /\ Top.p <= Top.k
    /\ Goto([Top EXCEPT !.pc = "narrow"])
    /\ UNCHANGED <<mem, Caller>>

\* else { Sort(s[:p])
SortFirstSort ==
    /\ Running("SortFirst", "split")
    /\ Top.p <= Top.k
    /\ Call("narrow", Frame("Sort", Top.lo, Top.lo + Top.p, 0))
    /\ UNCHANGED <<mem, Caller>>

\* s = s[p:]; k -= p } }
SortFirstNarrow ==
    /\ Running("SortFirst", "narrow")
    /\ IF Top.p > Top.hi - Top.lo
       THEN Panic
       ELSE Goto([Top EXCEPT !.lo = Top.lo + Top.p, !.k = Top.k - Top.p,
                             !.pc = "loop"])
    /\ UNCHANGED <<mem, Caller>>

\* selection(s, k) once k <= 4
SortFirstSelection ==
    /\ Running("SortFirst", "loop")
    /\ Top.k <= minK
    /\ LET sel == selection(mem, Top.lo, Top.hi, Top.k)
       IN  /\ mem' = sel.mem
           /\ IF sel.ok THEN ReturnVoid ELSE Panic
    /\ UNCHANGED Caller

(* func Select *)

\* (mutant) Select whose check is the slice expression s[:k+1], which is
\* checked against the capacity
SelectCheckAgainstCap ==
    /\ Running("Select", "check")
    /\ IF Top.k < 0 \/ Top.lo + Top.k + 1 > Len(mem)
       THEN Panic
       ELSE Goto([Top EXCEPT !.pc = "loop"])
    /\ UNCHANGED <<mem, Caller>>

\* _ = s[k]: an index expression is checked against the length
SelectCheck ==
    /\ Running("Select", "check")
    /\ IF Top.k < 0 \/ Top.k >= Top.hi - Top.lo
       THEN Panic
       ELSE Goto([Top EXCEPT !.pc = "loop"])
    /\ UNCHANGED <<mem, Caller>>

\* for k >= 4 { p := partition(s)
SelectPartition ==
    /\ Running("Select", "loop")
    /\ Top.k >= minK
    /\ Call("split", Frame("partition", Top.lo, Top.hi, 0))
    /\ UNCHANGED <<mem, Caller>>

\* if p > k { s = s[:p] }
SelectLeft ==
    /\ Running("Select", "split")
    /\ Top.p > Top.k
    /\ Goto([Top EXCEPT !.hi = Top.lo + Top.p, !.pc = "loop"])
    /\ UNCHANGED <<mem, Caller>>

\* (mutant) Select that narrows to the right part and keeps k
SelectRightKeepsK ==
    /\ Running("Select", "split")
    /\ Top.p <= Top.k
    /\ IF Top.p > Top.hi - Top.lo
       THEN Panic
       ELSE Goto([Top EXCEPT !.lo = Top.lo + Top.p, !.pc = "loop"])
    /\ UNCHANGED <<mem, Caller>>

\* else { s = s[p:]; k -= p } }
SelectRight ==
    /\ Running("Select", "split")
    /\ Top.p <= Top.k
    /\ IF Top.p > Top.hi - Top.lo
       THEN Panic
       ELSE Goto([Top EXCEPT !.lo = Top.lo + Top.p, !.k = Top.k - Top.p,
                             !.pc = "loop"])
    /\ UNCHANGED <<mem, Caller>>

\* selection(s, k+1); return s[k]
SelectSelection ==
    /\ Running("Select", "loop")
    /\ Top.k < minK
    /\ LET sel == selection(mem, Top.lo, Top.hi, Top.k + 1)
       IN  /\ mem' = sel.mem
           /\ IF sel.ok /\ Top.k < Top.hi - Top.lo
              THEN Return(At(sel.mem, Top.lo + Top.k))
              ELSE Panic
    /\ UNCHANGED Caller

(* func SortLast (src/unnamed/part_002) *)

\* (mutant) SortLast without its test of k != 0: Select(s, len(s)) for k = 0
SortLastUnguarded ==
    /\ Running("SortLast", "start")
    /\ Top.k = 0
    /\ Call("sort", Frame("Select", Top.lo, Top.hi, (Top.hi - Top.lo) - Top.k))
    /\ UNCHANGED <<mem, Caller>>

\* if k != 0 is false
SortLastNothing ==
    /\ Running("SortLast", "start")
    /\ Top.k = 0
    /\ ReturnVoid
    /\ UNCHANGED <<mem, Caller>>

\* (mutant) SortLast that selects the element of index k, not len(s) - k
SortLastSelectsK ==
    /\ Running("SortLast", "start")
    /\ Top.k # 0
    /\ Call("sort", Frame("Select", Top.lo, Top.hi, Top.k))
    /\ UNCHANGED <<mem, Caller>>

\* n := len(s) - k; Select(s, n)
SortLastSelect ==
    /\ Running("SortLast", "start")
    /\ Top.k # 0
    /\ Call("sort", Frame("Select", Top.lo, Top.hi, (Top.hi - Top.lo) - Top.k))
    /\ UNCHANGED <<mem, Caller>>

\* Sort(s[n+1:])
SortLastSort ==
    /\ Running("SortLast", "sort")
    /\ LET n == (Top.hi - Top.lo) - Top.k
       IN  IF n + 1 < 0 \/ n + 1 > Top.hi - Top.lo
           THEN Panic
           ELSE Call("done", Frame("Sort", Top.lo + n + 1, Top.hi, 0))
    /\ UNCHANGED <<mem, Caller>>

SortLastReturn ==
    /\ Running("SortLast", "done")
    /\ ReturnVoid
    /\ UNCHANGED <<mem, Caller>>

(* func partition.  The field k of its frame counts the retries the call
   has made, up to MaxRetry. *)

Retried(n) == IF n < MaxRetry THEN n + 1 ELSE n


\* (mutant) partition whose pivot is the first element
PartitionPivotFirst ==
    /\ Running("partition", "start")
    /\ IF Top.hi - Top.lo <= 0
       THEN Panic
       ELSE Goto([Top EXCEPT !.p = At(mem, Top.lo), !.pc = "scan"])
    /\ UNCHANGED <<mem, Caller>>

\* r := len(s) - 1; p := s[r/2]   (-1/2 is 0 in Go)
PartitionPivot ==
    /\ Running("partition", "start")
    /\ LET r == Top.hi - Top.lo - 1
       IN  IF GoDiv(r, 2) >= Top.hi - Top.lo
           THEN Panic
           ELSE Goto([Top EXCEPT !.p = At(mem, Top.lo + GoDiv(r, 2)), !.pc = "scan"])
    /\ UNCHANGED <<mem, Caller>>

\* retry: the scan, and return i when the partition is not bad
PartitionReturn ==
    /\ Running("partition", "scan")
    /\ LET h == hoareScan(mem, Top.lo, Top.hi, Top.p)
       IN  /\ ~badPartition(h.i, Top.hi - Top.lo - 1)
           /\ mem' = h.mem
           /\ Return(h.i)
    /\ UNCHANGED Caller

\* retry: the scan, and p = medianOfMedians(s); goto retry when it is bad
PartitionRetry ==
    /\ Running("partition", "scan")
    /\ LET h == hoareScan(mem, Top.lo, Top.hi, Top.p)
       IN  /\ badPartition(h.i, Top.hi - Top.lo - 1)
           /\ mem' = h.mem
           /\ stack' = Append([stack EXCEPT ![Len(stack)].k = Retried(Top.k)],
                               Frame("medianOfMedians", Top.lo, Top.hi, 0))
           /\ steps' = steps + 1
           /\ UNCHANGED <<status, result>>
    /\ UNCHANGED Caller

(* func medianOfMedians *)

\* (mutant) medianOfMedians that calls Select on its whole slice, not on
\* the medians s[:m]
MedianSelectsInAll ==
    /\ Running("medianOfMedians", "start")
    /\ LET g == medianGroups(mem, Top.lo, Top.hi)
       IN  /\ mem' = g.mem
           /\ Call("return", Frame("Select", Top.lo, Top.hi, GoDiv(g.m, 2)))
    /\ UNCHANGED Caller

\* (mutant) medianOfMedians that asks for the least of the medians
MedianSelectsLeast ==
    /\ Running("medianOfMedians", "start")
    /\ LET g == medianGroups(mem, Top.lo, Top.hi)
       IN  /\ mem' = g.mem
           /\ Call("return", Frame("Select", Top.lo, Top.lo + g.m, 0))
    /\ UNCHANGED Caller

\* the grouping loop, and the call Select(s[:m], m/2)
MedianSelect ==
    /\ Running("medianOfMedians", "start")
    /\ LET g == medianGroups(mem, Top.lo, Top.hi)
       IN  /\ mem' = g.mem
           /\ Call("return", Frame("Select", Top.lo, Top.lo + g.m, GoDiv(g.m, 2)))
    /\ UNCHANGED Caller

\* return what Select returned
MedianReturn ==
    /\ Running("medianOfMedians", "return")
    /\ mem' = mem
    /\ Return(Top.p)
    /\ UNCHANGED Caller

(* The caller of the idempotence test: Sort(s); Sort(s). *)

SortAgain ==
    /\ status = "returned"
    /\ op = "Sort"
    /\ calls = 1
    /\ calls' = 2
    /\ first' = mem
    /\ stack' = <<Frame("Sort", 0, len0, 0)>>
    /\ status' = "running"
    /\ steps' = 0
    /\ UNCHANGED <<mem, len0, op, k0, result, orig>>

Next ==
    \/ SortPartition \/ SortRecurse \/ SortNarrow \/ SortInsertion
    \/ SortFirstCheck \/ SortFirstPartition \/ SortFirstLeft \/ SortFirstSort
    \/ SortFirstNarrow \/ SortFirstSelection
    \/ SelectCheck \/ SelectPartition \/ SelectLeft \/ SelectRight
    \/ SelectSelection
    \/ SortLastNothing \/ SortLastSelect \/ SortLastSort \/ SortLastReturn
    \/ PartitionPivot \/ PartitionReturn \/ PartitionRetry
    \/ MedianSelect \/ MedianReturn
    \/ SortAgain

Spec == Init /\ [][Next]_vars

-----------------------------------------------------------------------------
(* package heap (src/unnamed/part_004): Floyd's bottom-up Heapsort.         *)
(* s is [0, n): heap.Sort only ever passes prefixes of the caller's slice.  *)

\* (mutant) minSearch that follows the smaller child
RECURSIVE minSearchSmaller(_, _, _)
minSearchSmaller(m, n, j) ==
    LET l == 2 * j + 1
        r == 2 * j + 2
    IN  IF r > n THEN j
        ELSE IF r = n THEN l
        ELSE IF At(m, r) < At(m, l) THEN minSearchSmaller(m, n, r)
        ELSE minSearchSmaller(m, n, l)

\* minSearch(s, j): the leaf where the least possible value would be placed
RECURSIVE minSearch(_, _, _)
minSearch(m, n, j) ==
    LET l == 2 * j + 1
        r == 2 * j + 2
    IN  IF r > n THEN j
        ELSE IF r = n THEN l
        ELSE IF At(m, l) < At(m, r) THEN minSearch(m, n, r)
        ELSE minSearch(m, n, l)

\* siftDown: for cmp.Less(s[j], t) { j = (j - 1) / 2 }
RECURSIVE climb(_, _, _)
climb(m, t, j) == IF At(m, j) < t THEN climb(m, t, GoDiv(j - 1, 2)) ELSE j

\* siftDown: for j > i { s[j], t = t, s[j]; j = (j - 1) / 2 }; s[i] = t
RECURSIVE shiftUp(_, _, _, _)
shiftUp(m, i, t, j) ==
    IF j > i THEN shiftUp(Put(m, j, t), i, At(m, j), GoDiv(j - 1, 2))
    ELSE Put(m, i, t)

\* siftDown(s, i) for s = [0, n)
siftDown(m, n, i) == shiftUp(m, i, At(m, i), climb(m, At(m, i), minSearch(m, n, i)))

\* heap.Sort: heapify(s), one iteration i of its loop at a time (k is i)
HeapSift ==
    /\ Running("heap.Sort", "start")
    /\ Top.k >= 0
    /\ mem' = siftDown(mem, Top.hi, Top.k)
    /\ Goto([Top EXCEPT !.k = Top.k - 1])
    /\ UNCHANGED Caller

\* heapify returns; m := len(s) (k is m from here on)
HeapBuilt ==
    /\ Running("heap.Sort", "start")
    /\ Top.k < 0
    /\ Goto([Top EXCEPT !.k = Top.hi, !.pc = "loop"])
    /\ UNCHANGED <<mem, Caller>>

\* for m > 1 { m -= 1; s[0], s[m] = s[m], s[0]; siftDown(s[:m], 0) }
HeapExtract ==
    /\ Running("heap.Sort", "loop")
    /\ Top.k > 1
    /\ mem' = siftDown(Swap(mem, 0, Top.k - 1), Top.k - 1, 0)
    /\ Goto([Top EXCEPT !.k = Top.k - 1])
    /\ UNCHANGED Caller

HeapReturn ==
    /\ Running("heap.Sort", "loop")
    /\ Top.k <= 1
    /\ ReturnVoid
    /\ UNCHANGED <<mem, Caller>>

\* heapify: for i := len(s)/2 - 1; ...
HeapInit ==
    \E inp \in SmallInputs \cup LongInputs :
        /\ mem = inp
        /\ len0 = Len(inp)
        /\ op = "heap.Sort"
        /\ k0 = 0
        /\ stack = <<[Frame("heap.Sort", 0, Len(inp), 0)
                         EXCEPT !.k = GoDiv(Len(inp), 2) - 1]>>
        /\ status = "running"
        /\ result = <<>>
        /\ orig = inp
        /\ calls = 1
        /\ first = <<>>
        /\ steps = 0

HeapNext == HeapSift \/ HeapBuilt \/ HeapExtract \/ HeapReturn

HeapSpec == HeapInit /\ [][HeapNext]_vars

-----------------------------------------------------------------------------
(* What the claims speak of. *)

\* the caller's slice now, and as the caller supplied it
Cur == Slice(mem, 0, len0)

Given == Slice(orig, 0, len0)

Values(q) == {q[i] : i \in DOMAIN q}

Count(q, v) == Cardinality({i \in DOMAIN q : q[i] = v})

IsPerm(a, b) ==
    /\ Len(a) = Len(b)
    /\ \A v \in Values(a) \cup Values(b) : Count(a, v) = Count(b, v)

NonDecreasing(q) == \A i, j \in DOMAIN q : i < j => ~(q[j] < q[i])

\* the value at index k (0-based) of a sorted copy of q, by rank
KthSmallest(q, k) ==
    CHOOSE v \in Values(q) :
        /\ Cardinality({i \in DOMAIN q : q[i] < v}) <= k
        /\ k < Cardinality({i \in DOMAIN q : q[i] <= v})

SortedCopy(q) == [i \in DOMAIN q |-> KthSmallest(q, i - 1)]

\* the caller's slice holds the elements it was given, and the storage
\* beyond its length is as it was
Permuted ==
    /\ Len(mem) = Len(orig)
    /\ IsPerm(Cur, Given)
    /\ Slice(mem, len0, Len(mem)) = Slice(orig, len0, Len(orig))

Returned(f) == op = f /\ status = "returned"

Panicked(f) == op = f /\ status = "panic"

\* C1: for every sequence, Sort returns, and then the sequence is
\* non-decreasing and a permutation of the sequence the caller supplied.
C1_SortSorts ==
    /\ ~Panicked("Sort")
    /\ Returned("Sort") => NonDecreasing(Cur) /\ Permuted

\* a Sort that partitioned (the input is longer than the threshold) has
\* returned, on an input that was not in order
C1_Witness ==
    /\ Returned("Sort")
    /\ calls = 1
    /\ len0 > minLen
    /\ ~NonDecreasing(Given)

\* C2: for 0 <= k < len(s), Select(s, k) returns the k-th smallest element
\* of s; on return s[k] is that value, no element left of k is greater, no
\* element right of k is less, and s is a permutation of what it was.
C2_SelectSelects ==
    (op = "Select" /\ 0 <= k0 /\ k0 < len0) =>
        /\ status # "panic"
        /\ status = "returned" =>
              /\ result = <<KthSmallest(Given, k0)>>
              /\ Cur[k0 + 1] = result[1]
              /\ \A i \in 1..len0 : (i < k0 + 1 => Cur[i] <= result[1])
                                    /\ (i > k0 + 1 => Cur[i] >= result[1])
              /\ Permuted

\* a Select that partitioned (k >= 4) has returned a value that was not at
\* index k to begin with
C2_Witness ==
    /\ Returned("Select")
    /\ k0 >= minK
    /\ k0 < len0
    /\ Given[k0 + 1] # result[1]

\* C3: for 0 <= k <= len(s), after SortFirst(s, k) the first k positions
\* are in non-decreasing order and are the first k positions of a sorted
\* copy of s, none of them exceeds any of the others, and s is a
\* permutation of what it was.
C3_SortFirstSorts ==
    (op = "SortFirst" /\ 0 <= k0 /\ k0 <= len0) =>
        /\ status # "panic"
        /\ status = "returned" =>
              /\ NonDecreasing(SubSeq(Cur, 1, k0))
              /\ SubSeq(Cur, 1, k0) = SubSeq(SortedCopy(Given), 1, k0)
              /\ \A i \in 1..k0 : \A j \in (k0 + 1)..len0 : Cur[i] <= Cur[j]
              /\ Permuted

\* a SortFirst that partitioned (k > 4) has returned, leaving unordered
\* positions behind the first k, which were not the k smallest in order
C3_Witness ==
    /\ Returned("SortFirst")
    /\ k0 > minK
    /\ k0 < len0
    /\ SubSeq(Given, 1, k0) # SubSeq(Cur, 1, k0)
    /\ ~NonDecreasing(Cur)

\* C4: for 0 <= k <= len(s), after SortLast(s, k) the last k positions are
\* in non-decreasing order and are the last k positions of a sorted copy of
\* s, none of them is less than any of the others, and s is a permutation
\* of what it was; for k = 0 it is what it was.
C4_SortLastSorts ==
    (op = "SortLast" /\ 0 <= k0 /\ k0 <= len0) =>
        /\ status # "panic"
        /\ k0 = 0 => mem = orig
        /\ status = "returned" =>
              /\ NonDecreasing(SubSeq(Cur, len0 - k0 + 1, len0))
              /\ SubSeq(Cur, len0 - k0 + 1, len0)
                     = SubSeq(SortedCopy(Given), len0 - k0 + 1, len0)
              /\ \A i \in 1..(len0 - k0) : \A j \in (len0 - k0 + 1)..len0 :
                     Cur[i] <= Cur[j]
              /\ Permuted

\* a SortLast whose Select partitioned has returned, having changed the
\* last k positions
C4_Witness ==
    /\ Returned("SortLast")
    /\ k0 > 0
    /\ len0 - k0 >= minK
    /\ SubSeq(Given, len0 - k0 + 1, len0) # SubSeq(Cur, len0 - k0 + 1, len0)

\* the calls C5 is about: Select with k no index of s, SortLast with k > len(s)
BadIndex ==
    \/ op = "Select" /\ (k0 < 0 \/ k0 >= len0)
    \/ op = "SortLast" /\ k0 > len0

\* C5: Select(s, k) with k < 0 or k >= len(s), and SortLast(s, k) with
\* k > len(s), fail out of range: the call never returns, the failure is
\* raised by the index check of Select, on the whole of s and with the index
\* as the caller gave it (len(s) - k for SortLast), before any step that
\* moves an element, and s is then as the caller supplied it.
C5_BadIndexFailsFast ==
    BadIndex =>
        /\ status # "returned"
        /\ mem = orig
        /\ Top.pc \in {"start", "check"}
        /\ status = "panic" =>
              /\ Top.fn = "Select"
              /\ Top.lo = 0
              /\ Top.hi = len0
              /\ Top.k = (IF op = "Select" THEN k0 ELSE len0 - k0)

\* Select has failed on an index one past the end of a sequence that is not
\* in order, with spare capacity behind it
C5_Witness ==
    /\ Panicked("Select")
    /\ k0 = len0
    /\ len0 < Len(mem)
    /\ ~NonDecreasing(Given)

\* C6: SortFirst(s, k) with k > len(s) fails at the initial bounds check:
\* the panic is raised by the statement _ = s[:k] of the caller's call, no
\* partition, Sort or selection having run, and s is then as the caller
\* supplied it.
C6_SortFirstFailsFast ==
    (op = "SortFirst" /\ k0 > len0) =>
        /\ status # "returned"
        /\ mem = orig
        /\ Len(stack) = 1
        /\ Top.pc = "check"

Drivers == {"Sort", "SortFirst", "SortLast", "Select"}

\* a call's bounds check is the first statement of SortFirst and of Select
\* (SortLast relies on that of the Select it calls)
AtBoundsCheck ==
    /\ Top.pc = "check"
    /\ \/ Len(stack) = 1
       \/ Len(stack) = 2 /\ stack[1].fn = "SortLast"

\* C7: once the inputs have passed the bounds check, a call of Sort,
\* SortFirst, SortLast or Select terminates without raising any error: a
\* call that fails has failed at its bounds check.
C7_NoErrorPastTheCheck == (op \in Drivers /\ status = "panic") => AtBoundsCheck

\* The calls whose count or index is within the length of the sequence.
WithinLength ==
    \/ op = "Sort"
    \/ op \in {"SortFirst", "SortLast"} /\ 0 <= k0 /\ k0 <= len0
    \/ op = "Select" /\ 0 <= k0 /\ k0 < len0

\* the statements of each function at which a frame can stand; at each of
\* them the guards of the function's actions leave no case out
Statements(fn) ==
    CASE fn = "Sort" -> {"loop", "split", "narrow"}
      [] fn = "SortFirst" -> {"check", "loop", "split", "narrow"}
      [] fn = "Select" -> {"check", "loop", "split"}
      [] fn = "SortLast" -> {"start", "sort", "done"}
      [] fn = "partition" -> {"start", "scan"}
      [] fn = "medianOfMedians" -> {"start", "return"}
      [] fn = "heap.Sort" -> {"start", "loop"}

\* a running call can take its next step
CanStep ==
    status = "running" => Len(stack) > 0 /\ Top.pc \in Statements(Top.fn)

\* Every call within the length of the sequence raises no error and
\* returns: while it runs it can take a step, and it takes at most
\* 6 * (len(s) + 1) steps.
TerminatesWithinLength ==
    WithinLength =>
        /\ status # "panic"
        /\ steps <= 6 * (len0 + 1)
        /\ CanStep

\* Each narrowing of the loop of Sort, SortFirst or Select strictly shrinks
\* the working range, to a part of it.
NarrowingShrinks ==
    [][\A d \in 1..Len(stack) :
         (/\ d <= Len(stack')
          /\ stack[d].fn \in Drivers
          /\ stack'[d].fn = stack[d].fn
          /\ <<stack'[d].lo, stack'[d].hi>> # <<stack[d].lo, stack[d].hi>>)
         => /\ stack[d].lo <= stack'[d].lo
            /\ stack'[d].hi <= stack[d].hi
            /\ stack'[d].hi - stack'[d].lo < stack[d].hi - stack[d].lo]_vars

\* the calls C8 is about
Tiny ==
    /\ len0 <= 1
    /\ \/ op = "Sort"
       \/ op \in {"SortFirst", "SortLast"} /\ k0 \in {0, len0}
       \/ op = "Select" /\ len0 = 1 /\ k0 = 0

\* C8: on an empty and on a single-element sequence, Sort, SortFirst and
\* SortLast (k = 0 and k = len(s)) raise no error and change nothing, and
\* Select on a single element with k = 0 returns that element.
C8_TinyIsNoOp ==
    Tiny =>
        /\ status # "panic"
        /\ mem = orig
        /\ Returned("Select") => result = <<Given[1]>>

\* SortLast(s, 1) on a single element has returned, through Select and Sort
C8_Witness ==
    /\ Returned("SortLast")
    /\ len0 = 1
    /\ k0 = 1

\* C9: Sort is idempotent: a second Sort of the sequence changes no
\* position of it, at any step.
C9_SortIdempotent == (op = "Sort" /\ calls = 2) => mem = first

\* a second Sort has returned on a sequence that the first put in order
\* and that the second partitioned
C9_Witness ==
    /\ Returned("Sort")
    /\ calls = 2
    /\ len0 > minLen
    /\ ~NonDecreasing(Given)

\* s[:n] is a binary max-heap
IsMaxHeap(m, n) == \A c \in 1..(n - 1) : At(m, c) <= At(m, (c - 1) \div 2)

\* at the head of the extraction loop with heap size n
HeapLoopInvariant(n) ==
    /\ IsMaxHeap(mem, n)
    /\ NonDecreasing(Slice(mem, n, len0))
    /\ \A i \in 1..n : \A j \in (n + 1)..len0 : mem[i] <= mem[j]
    /\ IsPerm(mem, orig)

\* C10: heap.Sort terminates (while it runs it can take a step, and it
\* takes at most len(s)/2 + len(s) + 2 steps) and leaves s in non-decreasing
\* order and a permutation of what it was; at the head of every iteration
\* of the extraction loop, with m the heap size, s[:m] is a binary max-heap
\* and s[m:] is in order and holds the largest elements.
C10_HeapSortSorts ==
    /\ status # "panic"
    /\ steps <= len0 \div 2 + len0 + 2
    /\ CanStep
    /\ (status = "running" /\ Top.pc = "loop") => HeapLoopInvariant(Top.k)
    /\ status = "returned" => NonDecreasing(mem) /\ IsPerm(mem, orig)

\* the extraction loop is half way through a sequence that was not in order
C10_Witness ==
    /\ status = "running"
    /\ Top.pc = "loop"
    /\ Top.k > 1
    /\ Top.k < len0 - 1
    /\ ~NonDecreasing(orig)
    /\ ~NonDecreasing(mem)

-----------------------------------------------------------------------------
(* partition and medianOfMedians. *)

\* a call of partition returns in this step
PartitionReturns == Running("partition", "scan") /\ Len(stack') < Len(stack)

\* what the call that returns in this step returns: to the program's caller
\* when it is the only call, else into p of the calling frame
ReturnedNow == IF Len(stack) = 1 THEN result'[1] ELSE stack'[Len(stack) - 1].p

\* the first scan of partition(s) on the caller's slice is judged bad
FirstScanIsBad ==
    badPartition(hoareScan(orig, 0, len0, At(orig, GoDiv(len0 - 1, 2))).i, len0 - 1)

\* C11: every call of partition on a slice of length >= 2 returns an index
\* i with 0 < i < len(s), no element of s[:i] is greater than an element
\* of s[i:], and s is a permutation of what it was, whether or not the
\* pivot was recomputed by medianOfMedians.
C11_PartitionSplits ==
    [][(PartitionReturns /\ Top.hi - Top.lo >= 2) =>
         LET lo == Top.lo
             hi == Top.hi
             i == ReturnedNow
         IN  /\ 0 < i
             /\ i < hi - lo
             /\ \A a \in lo..(lo + i - 1) : \A b \in (lo + i)..(hi - 1) :
                    ~(At(mem', b) < At(mem', a))
             /\ IsPerm(Slice(mem', lo, hi), Slice(mem, lo, hi))
             /\ Len(stack) = 1 =>
                    /\ IsPerm(Slice(mem', 0, len0), Given)
                    /\ Slice(mem', len0, Len(mem')) = Slice(orig, len0, Len(orig))]_vars

\* partition(s) has returned a split of a slice whose first scan was judged
\* bad, so that the pivot was recomputed
C11_Witness ==
    /\ Returned("partition")
    /\ len0 >= 2
    /\ FirstScanIsBad
    /\ 0 < result[1]
    /\ result[1] < len0
    /\ mem # orig

\* C12: a call of partition retries at most once: after medianOfMedians has
\* recomputed the pivot, the scan over the same slice yields an index that
\* is not judged bad.
C12_OneRetry ==
    /\ \A d \in 1..Len(stack) : stack[d].fn = "partition" => stack[d].k <= 1
    /\ (Running("partition", "scan") /\ Top.k >= 1) =>
           ~badPartition(hoareScan(mem, Top.lo, Top.hi, Top.p).i, Top.hi - Top.lo - 1)

\* Sort has its first split, which partition found at the second scan
C12_Witness ==
    /\ op = "Sort"
    /\ calls = 1
    /\ Running("Sort", "split")
    /\ Len(stack) = 1
    /\ Top.lo = 0
    /\ Top.hi = len0
    /\ FirstScanIsBad
    /\ ~badPartition(Top.p, len0 - 1)

-----------------------------------------------------------------------------
(* The recursion of Sort. *)

RECURSIVE Pow2(_)
Pow2(e) == IF e <= 0 THEN 1 ELSE 2 * Pow2(e - 1)

\* how many calls of Sort are active
SortDepth == Cardinality({d \in 1..Len(stack) : stack[d].fn = "Sort"})

\* C13: Sort recurses into the shorter of the two parts of a split: the
\* slice of a recursive call of Sort is at most half as long as the slice
\* that was partitioned, and the calls of Sort on a sequence of length n
\* nest at most log2(n) + 1 deep.
C13_SortRecursesIntoShorter ==
    /\ \A d \in 1..(Len(stack) - 1) :
          (stack[d].fn = "Sort" /\ stack[d + 1].fn = "Sort") =>
              2 * (stack[d + 1].hi - stack[d + 1].lo) <= stack[d].hi - stack[d].lo
    /\ (op = "Sort" /\ len0 >= 1) => Pow2(SortDepth - 1) <= len0

-----------------------------------------------------------------------------
(* medianOfMedians: the rank of what it returns. *)

\* medianOfMedians is about to return what Select returned
MedianFound == Running("medianOfMedians", "return")

\* the number of medians it collected from its slice
Medians == medianGroups(mem, Top.lo, Top.hi).m

\* how many elements of its slice are <= v, and how many are >= v
NotAbove(v) == Cardinality({a \in Top.lo..(Top.hi - 1) : At(mem, a) <= v})

NotBelow(v) == Cardinality({a \in Top.lo..(Top.hi - 1) : At(mem, a) >= v})

-----------------------------------------------------------------------------
(* medianOfMedians: the medians it collects. *)

\* medianOfMedians has collected its medians and calls Select on them
MediansCollected ==
    /\ Running("Select", "check")
    /\ Len(stack) >= 2
    /\ stack[Len(stack) - 1].fn = "medianOfMedians"

\* the g-th group of five (g = 0, 1, ...) of the slice the caller supplied
Group(g) == Slice(orig, groupLen * g, groupLen * g + groupLen)

\* C15: medianOfMedians takes a median from every complete group of 5
\* consecutive elements and skips only an incomplete last group: on a slice
\* of length n it moves n/5 (rounded down) medians to the front, each the
\* median of its group, into s[:m], and s stays a permutation of what it was.
C15_OneMedianPerGroup ==
    MediansCollected =>
        LET ms == stack[Len(stack) - 1]
            n == ms.hi - ms.lo
            m == Top.hi - Top.lo
        IN  /\ Top.lo = ms.lo
            /\ m = n \div groupLen
            /\ Len(stack) = 2 =>
                  /\ \A g \in 0..(m - 1) : At(mem, g) = KthSmallest(Group(g), 2)
                  /\ Permuted

\* C16: on a slice that yields fewer than 2 medians, a slice of one
\* element for example, medianOfMedians raises no error and returns the
\* first element of the slice.
C16_FewMediansReturnFirst ==
    (op = "medianOfMedians" /\ medianGroups(orig, 0, len0).m < 2) =>
        /\ status # "panic"
        /\ status = "returned" => result = <<At(mem, 0)>>

-----------------------------------------------------------------------------
(* The slices the drivers hand to partition. *)

\* C17: in a call of Sort, SortFirst, SortLast or Select whose count or
\* index is within the length, every call of partition is on a slice of at
\* least 2 elements, the calls made through medianOfMedians included; every
\* call of Select has 0 <= k < len(s) and every call of SortFirst has
\* 0 <= k <= len(s), before and after each narrowing.
C17_PartitionFromTwo ==
    (op \in Drivers /\ WithinLength) =>
        \A d \in 1..Len(stack) :
            LET f == stack[d]
            IN  /\ f.fn = "partition" => f.hi - f.lo >= 2
                /\ f.fn = "Select" => 0 <= f.k /\ f.k < f.hi - f.lo
                /\ f.fn = "SortFirst" => 0 <= f.k /\ f.k <= f.hi - f.lo

\* the Select that medianOfMedians called, in a call of a driver, has called
\* partition
C17_Witness ==
    /\ op \in Drivers
    /\ WithinLength
    /\ Running("partition", "start")
    /\ Len(stack) >= 4
    /\ stack[Len(stack) - 1].fn = "Select"
    /\ stack[Len(stack) - 2].fn = "medianOfMedians"

-----------------------------------------------------------------------------
(* partition on sequences in order. *)

NonIncreasing(q) == \A i, j \in DOMAIN q : i < j => ~(q[i] < q[j])

\* the first and the last index of the elements equal to the middle element
\* s[(len(s)-1)/2] of the slice the caller supplied
MiddleRun == {a \in 0..(len0 - 1) : At(orig, a) = At(orig, GoDiv(len0 - 1, 2))}

RunFirst == CHOOSE a \in MiddleRun : \A b \in MiddleRun : a <= b

RunLast == CHOOSE a \in MiddleRun : \A b \in MiddleRun : b <= a

\* medianOfMedians is not called and no scan is redone
NoRetry ==
    \A d \in 1..Len(stack) :
        /\ stack[d].fn # "medianOfMedians"
        /\ stack[d].fn = "partition" => stack[d].k = 0

-----------------------------------------------------------------------------
(* The recursion partition -> medianOfMedians -> Select -> partition. *)

RECURSIVE Pow5(_)
Pow5(e) == IF e <= 0 THEN 1 ELSE groupLen * Pow5(e - 1)

\* the active calls of medianOfMedians, by their place in the stack
MedianCalls == {d \in 1..Len(stack) : stack[d].fn = "medianOfMedians"}

\* C19: the slice on which medianOfMedians calls Select is a prefix of its
\* own slice, shorter than it and at most a fifth as long, and all that
\* Select calls stays within it: every nested call of medianOfMedians is on
\* a slice at most a fifth as long as that of the call around it, so that
\* on a sequence of n elements n >= 5^(d-1) bounds the d calls nested.
C19_MutualRecursionShrinks ==
    /\ \A d \in MedianCalls :
          LET n == stack[d].hi - stack[d].lo
          IN  /\ d < Len(stack) =>
                    /\ stack[d + 1].fn = "Select"
                    /\ stack[d + 1].pc = "check" => stack[d + 1].lo = stack[d].lo
                /\ \A e \in (d + 1)..Len(stack) :
                      /\ stack[d].lo <= stack[e].lo
                      /\ stack[e].lo <= stack[e].hi
                      /\ groupLen * (stack[e].hi - stack[d].lo) <= n
                      /\ stack[e].hi - stack[d].lo < n
    /\ MedianCalls # {} => Pow5(Cardinality(MedianCalls) - 1) <= len0

\* the Select that medianOfMedians called from within a partition has narrowed
\* its slice
C19_Witness ==
    /\ Running("Select", "loop")
    /\ Len(stack) >= 3
    /\ stack[Len(stack) - 1].fn = "medianOfMedians"
    /\ stack[Len(stack) - 2].fn = "partition"
    /\ Top.lo > stack[Len(stack) - 1].lo
    /\ mem # orig

-----------------------------------------------------------------------------
(* What a call leaves alone. *)

\* C20: no step changes an element outside the slice of an active call:
\* once Select or SortFirst has narrowed its slice, the elements outside it
\* stay as they are for the rest of the call; a recursive call of Sort
\* changes only the part it was given; partition and medianOfMedians change
\* only their slice.  The slice of a call lies within the slice of its
\* caller.
C20_OutsideUntouched ==
    [][/\ Len(mem') = Len(mem)
       /\ \A d \in 1..Len(stack) :
             /\ \A a \in 0..(Len(mem) - 1) :
                   (a < stack[d].lo \/ a >= stack[d].hi) => At(mem', a) = At(mem, a)
             /\ d > 1 =>
                   /\ stack[d - 1].lo <= stack[d].lo
                   /\ stack[d].hi <= stack[d - 1].hi]_vars

\* Select has narrowed its slice at both ends, moving elements, and goes on
\* within it
C20_Witness ==
    /\ op = "Select"
    /\ Running("Select", "loop")
    /\ Len(stack) = 1
    /\ Top.lo > 0
    /\ Top.hi < len0
    /\ mem # orig

-----------------------------------------------------------------------------
(* The calls of medianOfMedians that partition makes. *)

\* the active calls of medianOfMedians made by partition
RetryCalls == {d \in MedianCalls : d > 1 /\ stack[d - 1].fn = "partition"}

\* the shortest slice whose split can be judged bad: b = r/16 > 4 needs
\* r >= 16 * 5
ShortestBad == minRatio * (minBand + 1) + 1

\* C21: when partition judges a split bad and calls medianOfMedians, the
\* slice has at least 81 elements, so that medianOfMedians collects at least
\* 2 medians and calls Select on a slice that is not empty with an index
\* within it, which raises no error; no call of Sort, SortFirst, SortLast or
\* Select with k within the length fails inside medianOfMedians.
C21_RetryOnLongSlices ==
    /\ \A d \in RetryCalls :
          /\ stack[d].hi - stack[d].lo >= ShortestBad
          /\ stack[d].hi - stack[d].lo = stack[d - 1].hi - stack[d - 1].lo
          /\ d < Len(stack) =>
                /\ stack[d + 1].fn = "Select"
                /\ stack[d + 1].hi - stack[d + 1].lo >= 1
                /\ 0 <= stack[d + 1].k
                /\ stack[d + 1].k < stack[d + 1].hi - stack[d + 1].lo
                /\ stack[d + 1].pc = "check" =>
                      /\ stack[d + 1].hi - stack[d + 1].lo >= 2
                      /\ stack[d + 1].hi - stack[d + 1].lo
                            = medianGroups(mem, stack[d].lo, stack[d].hi).m
          /\ status # "panic"
    /\ (op \in Drivers /\ WithinLength /\ status = "panic") => MedianCalls = {}

\* in a call of a driver, the Select that medianOfMedians called for a bad
\* split has passed its check on all the medians
C21_Witness ==
    /\ op \in Drivers
    /\ WithinLength
    /\ Running("Select", "loop")
    /\ Len(stack) - 1 \in RetryCalls
    /\ Top.lo = stack[Len(stack) - 1].lo
    /\ Top.hi - Top.lo = medianGroups(mem, stack[Len(stack) - 1].lo, stack[Len(stack) - 1].hi).m
    /\ Top.hi - Top.lo >= 2

=============================================================================
